---- MODULE Spec2Model ----
(***************************************************************************)
(* State machine of the ConstitutionAssistant component (src/app/page.tsx). *)
(* The React state of the component is the state of the model; every       *)
(* handler is cut at its awaits, and each piece between two awaits is one   *)
(* atomic action (the browser runs it to completion on the UI thread).      *)
(* The user's events are enabled only when the rendered JSX offers the      *)
(* control that raises them.                                                *)
(***************************************************************************)
EXTENDS Integers, Sequences, FiniteSets, TLC

(* ------------------------------ bounds --------------------------------- *)

\* Valid PDF selections over the life of the page.
MaxUploads == 2

\* Non-blank invocations of handleQuery over the life of the page.
MaxQueries == 2

\* Handlers suspended at an await at the same time.
MaxInFlight == 2

(* ------------------------- values of the model ------------------------- *)

\* null and undefined: the empty tuple, comparable with every record.
Null == <<>>

PdfType == "application/pdf"

\* Files the user can pick; a file's text is what pdfToText resolves to.
Files ==
  { [name |-> "a.pdf", type |-> PdfType,      text |-> "text of a"],
    [name |-> "b.pdf", type |-> PdfType,      text |-> "text of b"],
    [name |-> "n.txt", type |-> "text/plain", text |-> "plain"] }

\* What pdfToText(file) resolves to when it resolves.
PdfToText(file) == file.text

\* event.target.files: an empty FileList or a list with the chosen file.
FileLists == {<<>>} \cup { <<f>> : f \in Files }

\* The messages the handlers store in `error`.
InvalidFileMessage == "Please select a valid PDF file"
ExtractFailedMessage == "Failed to extract text from PDF. Please try with a different PDF file."
ProcessFailedMessage == "Failed to process constitution text"
QueryFailedMessage == "Failed to process query"

InitialStage == "Initializing chunking..."
CompleteStage == "Complete!"

\* The query text is a sequence of characters; " " and "\n" are whitespace.
Whitespace == {" ", "\n"}

QueryTexts == { <<>>, <<" ">>, <<" ", "a", " ">> }

\* String.prototype.trim: drop leading and trailing whitespace.
RECURSIVE TrimStart(_)
TrimStart(s) ==
  IF s = <<>> THEN <<>>
  ELSE IF Head(s) \in Whitespace THEN TrimStart(Tail(s)) ELSE s

RECURSIVE TrimEnd(_)
TrimEnd(s) ==
  IF s = <<>> THEN <<>>
  ELSE IF s[Len(s)] \in Whitespace THEN TrimEnd(SubSeq(s, 1, Len(s) - 1)) ELSE s

\* A trim that forgets to trim: the bug the blank-query guard protects from.
TrimNothing(s) == s

Trim(s) == TrimEnd(TrimStart(s))

(* ------------------- the wire format of POST /process ------------------ *)

\* A parsed JSON object, with the fields the handlers read; a field the
\* object lacks reads as undefined ("" / Null / FALSE).
Obj(type, progress, stage, result, err, success) ==
  [type |-> type, progress |-> progress, stage |-> stage, result |-> result,
   error |-> err, success |-> success]

\* The text of a JSON object is two tokens: its members and the closing brace.
\* JsonValue gives the object a member list denotes.
JsonMembers ==
  {"progress30", "progress150", "completeOk", "completeFail", "errorBadText", "resultOk",
   "resultFail"}

JsonValue(m) ==
  CASE m = "progress30"   -> Obj("progress", 30, "chunking", Null, "", FALSE)
    [] m = "progress150"  -> Obj("progress", 150, "chunking", Null, "", FALSE)
    [] m = "completeOk"   -> Obj("complete", 0, "", [success |-> TRUE], "", FALSE)
    [] m = "completeFail" -> Obj("complete", 0, "", [success |-> FALSE], "", FALSE)
    [] m = "errorBadText" -> Obj("error", 0, "", Null, "bad text", FALSE)
    [] m = "resultOk"     -> Obj("", 0, "", Null, "", TRUE)
    [] m = "resultFail"   -> Obj("", 0, "", Null, "", FALSE)

\* JSON.parse: the value of a complete object text, or a SyntaxError.
ParseJSON(toks) ==
  IF Len(toks) = 2 /\ toks[1] \in JsonMembers /\ toks[2] = "}"
  THEN [ok |-> TRUE, value |-> JsonValue(toks[1])]
  ELSE [ok |-> FALSE, value |-> Null]

\* One event of the stream as the backend writes it: a 'data: ' line.
EventLine(m) == <<"data: ", m, "}", "\n">>

RECURSIVE Serialize(_)
Serialize(events) ==
  IF events = <<>> THEN <<>> ELSE EventLine(Head(events)) \o Serialize(Tail(events))

\* The event sequences the backend may stream.
Streams ==
  { <<"progress30", "completeOk">>,
    <<"errorBadText">>,
    <<"completeFail">>,
    <<"progress150">> }

\* The responses POST /process may resolve to.
ProcessResponses ==
  { [contentType |-> "text/stream", hasBody |-> TRUE, events |-> s, body |-> Serialize(s)] :
      s \in Streams }
  \cup
  { [contentType |-> "text/event-stream", hasBody |-> TRUE,
     events |-> <<"completeOk">>, body |-> Serialize(<<"completeOk">>)],
    [contentType |-> "application/json", hasBody |-> TRUE, events |-> <<>>, body |-> <<"resultOk", "}">>],
    [contentType |-> "application/json", hasBody |-> TRUE, events |-> <<>>, body |-> <<"resultFail", "}">>],
    [contentType |-> "text/stream", hasBody |-> FALSE, events |-> <<>>, body |-> <<>>] }

\* A test that takes every content type for a stream.
IncludesAnyType(contentType) == TRUE

\* headers.get('content-type')?.includes('text/stream')
IncludesTextStream(contentType) == contentType \in {"text/stream", "text/stream; charset=utf-8"}

\* The test of line 87: the response is consumed as a stream.
SupportsStreaming(response) == response.hasBody /\ IncludesTextStream(response.contentType)

\* chunk.split('\n')
RECURSIVE SplitLines(_, _)
SplitLines(toks, line) ==
  IF toks = <<>> THEN <<line>>
  ELSE IF Head(toks) = "\n" THEN <<line>> \o SplitLines(Tail(toks), <<>>)
  ELSE SplitLines(Tail(toks), Append(line, Head(toks)))

\* .filter(line => line.trim())
RECURSIVE NonBlankLines(_)
NonBlankLines(lines) ==
  IF lines = <<>> THEN <<>>
  ELSE IF Head(lines) = <<>> THEN NonBlankLines(Tail(lines))
  ELSE <<Head(lines)>> \o NonBlankLines(Tail(lines))

\* line.startsWith('data: ')
StartsWithData(line) == line # <<>> /\ line[1] = "data: "

\* The body of the for loop (lines 100-112) on one line; st holds
\* processingProgress, processingStage and the local finalResult.
ApplyLine(line, st) ==
  IF ~StartsWithData(line) THEN st
  ELSE LET parsed == ParseJSON(Tail(line)) IN
    IF ~parsed.ok THEN st
    ELSE IF parsed.value.type = "progress"
      THEN [st EXCEPT !.progress = parsed.value.progress, !.stage = parsed.value.stage]
    ELSE IF parsed.value.type = "complete"
      THEN [st EXCEPT !.finalResult = parsed.value.result]
    ELSE st

RECURSIVE ApplyLines(_, _)
ApplyLines(lines, st) ==
  IF lines = <<>> THEN st ELSE ApplyLines(Tail(lines), ApplyLine(Head(lines), st))

\* One pass of the while loop on a chunk that reader.read() returned.
ApplyChunk(chunk, st) == ApplyLines(NonBlankLines(SplitLines(chunk, <<>>)), st)

\* finalResult?.success
Truthy(result) == result # Null /\ result.success

(* ------------------------ the wire format of POST /query --------------- *)

QueryResults(q) ==
  { [success |-> TRUE,  query |-> q, response |-> "answer"],
    [success |-> FALSE, query |-> q, response |-> "no relevant sections"] }

(* ------------------------------- state --------------------------------- *)

VARIABLES
  pdfFile,            \* useState<File | null>
  extractedText,      \* useState<string>
  uploadProgress,     \* useState<number>
  isProcessing,       \* useState<boolean>
  isUploaded,         \* useState<boolean>
  query,              \* useState<string>
  queryResult,        \* useState<QueryResult | null>
  isQuerying,         \* useState<boolean>
  error,              \* useState<string>
  processingProgress, \* useState<number>
  processingStage,    \* useState<string>
  uploads,            \* the invocations of extractTextFromPDF, in order
  queries,            \* the invocations of handleQuery that passed the guard
  backend,            \* what GET /stats would answer at page load
  lastEvent           \* the step that produced this state

\* The handler invocations that have not finished.
InFlight ==
  Cardinality({i \in DOMAIN uploads : uploads[i].pc # "done"})
  + Cardinality({j \in DOMAIN queries : queries[j].pc # "done"})

component ==
  <<pdfFile, extractedText, uploadProgress, isProcessing, isUploaded, query,
    queryResult, isQuerying, error, processingProgress, processingStage>>

vars == <<component, uploads, queries, backend, lastEvent>>

\* lastEvent names the step that produced the state: a user's event with its
\* arguments, or the resumption of a suspended handler.
Event(op) ==
  [op |-> op, files |-> <<>>, key |-> "", shiftKey |-> FALSE,
   id |-> 0, response |-> Null, outcome |-> ""]

\* handler invocation id resumed after an await; outcome is "" while the
\* handler is still suspended, and response is what POST /process returned.
Resumed(op, id, response, outcome) ==
  [Event(op) EXCEPT !.id = id, !.response = response, !.outcome = outcome]

(* ------------------------------- start --------------------------------- *)

\* What GET /stats would report while the page loads; the component never
\* asks. The variable holds it in the initial state only, and Null afterwards.
Backends == [reachable : BOOLEAN, totalChunks : {0, 1}]

\* An initial state that is picked from GET /stats, as a status machine would.
InitFromStats ==
  /\ backend \in Backends
  /\ pdfFile = Null
  /\ extractedText = ""
  /\ uploadProgress = 0
  /\ isProcessing = FALSE
  /\ isUploaded = (backend.reachable /\ backend.totalChunks > 0)
  /\ query = <<>>
  /\ queryResult = Null
  /\ isQuerying = FALSE
  /\ error = ""
  /\ processingProgress = 0
  /\ processingStage = ""
  /\ uploads = <<>>
  /\ queries = <<>>
  /\ lastEvent = Event("mount")

\* The useState initialisers of lines 19-29; there is no effect on mount.
Init ==
  /\ backend \in Backends
  /\ pdfFile = Null
  /\ extractedText = ""
  /\ uploadProgress = 0
  /\ isProcessing = FALSE
  /\ isUploaded = FALSE
  /\ query = <<>>
  /\ queryResult = Null
  /\ isQuerying = FALSE
  /\ error = ""
  /\ processingProgress = 0
  /\ processingStage = ""
  /\ uploads = <<>>
  /\ queries = <<>>
  /\ lastEvent = Event("mount")

(* -------------------- what the rendered page offers -------------------- *)

\* The file input is rendered only in the !isUploaded branch (lines 233-250).
UploadControlRendered == ~isUploaded

\* disabled={!isUploaded} on the textarea (line 341).
TextareaEnabled == isUploaded

\* disabled={!query.trim() || !isUploaded || isQuerying} (line 346).
AskButtonEnabled == ~(Trim(query) = <<>> \/ ~isUploaded \/ isQuerying)

(* --------------------------- upload handler ---------------------------- *)

\* A guard that forgets the type test.
AnyFileAccepted(files) == files # <<>>

\* file && file.type === 'application/pdf' (line 35).
IsAcceptedFile(files) == files # <<>> /\ files[1].type = PdfType

\* An upload handler whose accepting branch leaves the error message standing.
HandleFileSelectKeepsError(files) ==
  /\ UploadControlRendered
  /\ lastEvent' = [Event("handleFileSelect") EXCEPT !.files = files]
  /\ IF IsAcceptedFile(files)
     THEN /\ Len(uploads) < MaxUploads
          /\ InFlight < MaxInFlight
          /\ pdfFile' = files[1]
          /\ isProcessing' = TRUE
          /\ uploadProgress' = 25
          /\ uploads' = Append(uploads,
               [pc |-> "pdfToText", file |-> files[1], request |-> Null, body |-> <<>>,
                finalResult |-> Null, response |-> Null, outcome |-> "pending"])
          /\ UNCHANGED <<extractedText, isUploaded, query, queryResult, isQuerying,
                         processingProgress, processingStage, error>>
     ELSE /\ error' = InvalidFileMessage
          /\ UNCHANGED <<pdfFile, extractedText, uploadProgress, isProcessing, isUploaded,
                         query, queryResult, isQuerying, processingProgress,
                         processingStage, uploads>>
  /\ UNCHANGED queries
  /\ backend' = Null

\* A request body that carries no text.
ProcessRequestEmpty(text) == [constitutionText |-> "", strategy |-> "ai"]

\* The body of POST /process (lines 79-82).
ProcessRequest(text) == [constitutionText |-> text, strategy |-> "ai"]

\* handleFileSelect, with extractTextFromPDF up to its await of pdfToText.
HandleFileSelect(files) ==
  /\ UploadControlRendered
  /\ lastEvent' = [Event("handleFileSelect") EXCEPT !.files = files]
  /\ IF IsAcceptedFile(files)
     THEN /\ Len(uploads) < MaxUploads
          /\ InFlight < MaxInFlight
          /\ pdfFile' = files[1]
          /\ error' = ""
          /\ isProcessing' = TRUE
          /\ uploadProgress' = 25
          /\ uploads' = Append(uploads,
               [pc |-> "pdfToText", file |-> files[1], request |-> Null, body |-> <<>>,
                finalResult |-> Null, response |-> Null, outcome |-> "pending"])
          /\ UNCHANGED <<extractedText, isUploaded, query, queryResult, isQuerying,
                         processingProgress, processingStage>>
     ELSE /\ error' = InvalidFileMessage
          /\ UNCHANGED <<pdfFile, extractedText, uploadProgress, isProcessing, isUploaded,
                         query, queryResult, isQuerying, processingProgress,
                         processingStage, uploads>>
  /\ UNCHANGED queries
  /\ backend' = Null

\* An extraction that a later selection has superseded is dropped when it
\* resolves; only the latest one writes state and posts.
PdfToTextResolveLatestOnly(i) ==
  /\ uploads[i].pc = "pdfToText"
  /\ lastEvent' = Resumed("pdfToText.resolve", i, Null, "")
  /\ backend' = Null
  /\ IF i = Len(uploads)
     THEN /\ uploadProgress' = 100
          /\ extractedText' = PdfToText(uploads[i].file)
          /\ isUploaded' = TRUE
          /\ processingProgress' = 0
          /\ processingStage' = InitialStage
          /\ uploads' = [uploads EXCEPT ![i].pc = "fetch", ![i].file = Null,
                           ![i].request = ProcessRequest(PdfToText(uploads[i].file))]
          /\ UNCHANGED <<pdfFile, isProcessing, query, queryResult, isQuerying, error,
                         queries>>
     ELSE /\ uploads' = [uploads EXCEPT ![i].pc = "done", ![i].file = Null]
          /\ UNCHANGED <<component, queries>>

\* pdfToText resolves: lines 54-57, then processConstitution up to its fetch.
PdfToTextResolve(i) ==
  /\ uploads[i].pc = "pdfToText"
  /\ uploadProgress' = 100
  /\ extractedText' = PdfToText(uploads[i].file)
  /\ isUploaded' = TRUE
  /\ processingProgress' = 0
  /\ processingStage' = InitialStage
  /\ uploads' = [uploads EXCEPT ![i].pc = "fetch", ![i].file = Null,
                                ![i].request = ProcessRequest(PdfToText(uploads[i].file))]
  /\ lastEvent' = Resumed("pdfToText.resolve", i, Null, "")
  /\ UNCHANGED <<pdfFile, isProcessing, query, queryResult, isQuerying, error, queries>>
  /\ backend' = Null

\* A failure branch that sends the page back to its initial upload state.
PdfToTextRejectResetsUpload(i) ==
  /\ uploads[i].pc = "pdfToText"
  /\ error' = ExtractFailedMessage
  /\ isProcessing' = FALSE
  /\ isUploaded' = FALSE
  /\ pdfFile' = Null
  /\ uploads' = [uploads EXCEPT ![i].pc = "done", ![i].outcome = "extractFailed",
                                ![i].file = Null]
  /\ lastEvent' = Resumed("pdfToText.reject", i, Null, "extractFailed")
  /\ UNCHANGED <<extractedText, uploadProgress, query, queryResult,
                 isQuerying, processingProgress, processingStage, queries>>
  /\ backend' = Null

\* pdfToText rejects: the catch and the finally of extractTextFromPDF.
PdfToTextReject(i) ==
  /\ uploads[i].pc = "pdfToText"
  /\ error' = ExtractFailedMessage
  /\ isProcessing' = FALSE
  /\ uploads' = [uploads EXCEPT ![i].pc = "done", ![i].outcome = "extractFailed",
                                ![i].file = Null]
  /\ lastEvent' = Resumed("pdfToText.reject", i, Null, "extractFailed")
  /\ UNCHANGED <<pdfFile, extractedText, uploadProgress, isUploaded, query, queryResult,
                 isQuerying, processingProgress, processingStage, queries>>
  /\ backend' = Null

(* -------------------------- processing handler ------------------------- *)

\* A catch that logs the failure and stores no message.
ProcessFailedSilently(i, op) ==
  /\ processingProgress' = 0
  /\ processingStage' = ""
  /\ isProcessing' = FALSE
  /\ uploads' = [uploads EXCEPT ![i].pc = "done", ![i].outcome = "processFailed",
                                ![i].request = Null, ![i].body = <<>>,
                                ![i].finalResult = Null, ![i].response = Null]
  /\ lastEvent' = Resumed(op, i, uploads[i].response, "processFailed")
  /\ UNCHANGED <<pdfFile, extractedText, uploadProgress, isUploaded, query, queryResult,
                 isQuerying, error, queries>>
  /\ backend' = Null

\* The catch of processConstitution, then the finally of extractTextFromPDF.
ProcessFailed(i, op) ==
  /\ error' = ProcessFailedMessage
  /\ processingProgress' = 0
  /\ processingStage' = ""
  /\ isProcessing' = FALSE
  /\ uploads' = [uploads EXCEPT ![i].pc = "done", ![i].outcome = "processFailed",
                                ![i].request = Null, ![i].body = <<>>,
                                ![i].finalResult = Null, ![i].response = Null]
  /\ lastEvent' = Resumed(op, i, uploads[i].response, "processFailed")
  /\ UNCHANGED <<pdfFile, extractedText, uploadProgress, isUploaded, query, queryResult,
                 isQuerying, queries>>
  /\ backend' = Null

\* Lines 117-119 (128-129), then the finally of extractTextFromPDF.
ProcessSucceeded(i, op) ==
  /\ processingProgress' = 100
  /\ processingStage' = CompleteStage
  /\ isProcessing' = FALSE
  /\ uploads' = [uploads EXCEPT ![i].pc = "done", ![i].outcome = "processed",
                                ![i].request = Null, ![i].body = <<>>,
                                ![i].finalResult = Null, ![i].response = Null]
  /\ lastEvent' = Resumed(op, i, uploads[i].response, "processed")
  /\ UNCHANGED <<pdfFile, extractedText, uploadProgress, isUploaded, query, queryResult,
                 isQuerying, error, queries>>
  /\ backend' = Null

\* fetch resolves with the response headers: the test of line 87, then the
\* first reader.read() or response.json().
ProcessFetchResolve(i, response) ==
  /\ uploads[i].pc = "fetch"
  /\ uploads' = [uploads EXCEPT
       ![i].pc = IF SupportsStreaming(response) THEN "read" ELSE "json",
       ![i].request = Null,
       ![i].body = response.body,
       ![i].response = [contentType |-> response.contentType, events |-> response.events]]
  /\ lastEvent' = Resumed("process.fetch.resolve", i, Null, "")
  /\ UNCHANGED <<component, queries>>
  /\ backend' = Null

\* fetch rejects (the network failed).
ProcessFetchReject(i) ==
  /\ uploads[i].pc = "fetch"
  /\ ProcessFailed(i, "process.fetch.reject")

\* reader.read() resolves with the next n tokens of the body as one chunk.
ReaderRead(i, n) ==
  /\ uploads[i].pc = "read"
  /\ n \in 1..Len(uploads[i].body)
  /\ LET st == ApplyChunk(SubSeq(uploads[i].body, 1, n),
                 [progress |-> processingProgress, stage |-> processingStage,
                  finalResult |-> uploads[i].finalResult])
     IN /\ processingProgress' = st.progress
        /\ processingStage' = st.stage
        /\ uploads' = [uploads EXCEPT
             ![i].body = SubSeq(uploads[i].body, n + 1, Len(uploads[i].body)),
             ![i].finalResult = st.finalResult]
  /\ lastEvent' = Resumed("reader.read", i, Null, "")
  /\ UNCHANGED <<pdfFile, extractedText, uploadProgress, isProcessing, isUploaded, query,
                 queryResult, isQuerying, error, queries>>
  /\ backend' = Null

\* reader.read() resolves with done: lines 116-122.
ReaderDone(i) ==
  /\ uploads[i].pc = "read"
  /\ uploads[i].body = <<>>
  /\ IF Truthy(uploads[i].finalResult)
     THEN ProcessSucceeded(i, "reader.done")
     ELSE ProcessFailed(i, "reader.done")

\* reader.read() rejects (the connection broke).
ReaderReject(i) ==
  /\ uploads[i].pc = "read"
  /\ ProcessFailed(i, "reader.reject")

\* response.json() settles: lines 125-132.
ProcessJsonSettle(i) ==
  /\ uploads[i].pc = "json"
  /\ LET parsed == ParseJSON(uploads[i].body) IN
     IF parsed.ok /\ parsed.value.success
     THEN ProcessSucceeded(i, "process.json")
     ELSE ProcessFailed(i, "process.json")

(* ---------------------------- query handler ---------------------------- *)

\* onChange of the textarea (line 336).
SetQuery(q) ==
  /\ TextareaEnabled
  /\ q # query
  /\ query' = q
  /\ lastEvent' = Event("setQuery")
  /\ UNCHANGED <<pdfFile, extractedText, uploadProgress, isProcessing, isUploaded,
                 queryResult, isQuerying, error, processingProgress, processingStage,
                 uploads, queries>>
  /\ backend' = Null

\* handleQuery up to its await of fetch (lines 142-155).
HandleQuery ==
  IF Trim(query) = <<>>
  THEN UNCHANGED <<component, queries>>
  ELSE /\ Len(queries) < MaxQueries
       /\ InFlight < MaxInFlight
       /\ isQuerying' = TRUE
       /\ error' = ""
       /\ queries' = Append(queries, [q |-> query, pc |-> "fetch"])
       /\ UNCHANGED <<pdfFile, extractedText, uploadProgress, isProcessing, isUploaded,
                      query, queryResult, processingProgress, processingStage>>

\* onClick of the Ask button (line 345).
ClickAsk ==
  /\ AskButtonEnabled
  /\ HandleQuery
  /\ lastEvent' = Event("clickAsk")
  /\ UNCHANGED uploads
  /\ backend' = Null

\* The key presses the textarea can raise.
KeyEvents ==
  { [key |-> "Enter", shiftKey |-> FALSE],
    [key |-> "Enter", shiftKey |-> TRUE],
    [key |-> "a",     shiftKey |-> FALSE] }

\* A test of the key alone, with the Shift modifier ignored.
SubmitsOnEnter(key, shiftKey) == key = "Enter"

\* e.key === 'Enter' && !e.shiftKey (line 168).
SubmitsQuery(key, shiftKey) == key = "Enter" /\ ~shiftKey

\* handleKeyPress (lines 167-172), raised by the textarea.
HandleKeyPress(key, shiftKey) ==
  /\ TextareaEnabled
  /\ IF SubmitsQuery(key, shiftKey)
     THEN HandleQuery
     ELSE UNCHANGED <<component, queries>>
  /\ lastEvent' = [Event("handleKeyPress") EXCEPT !.key = key, !.shiftKey = shiftKey]
  /\ UNCHANGED uploads
  /\ backend' = Null

\* A catch with no finally after it: the flag is left set.
QueryFailedKeepsQuerying(j, op) ==
  /\ error' = QueryFailedMessage
  /\ queries' = [queries EXCEPT ![j].pc = "done", ![j].q = <<>>]
  /\ lastEvent' = Resumed(op, j, Null, "failed")
  /\ UNCHANGED <<pdfFile, extractedText, uploadProgress, isProcessing, isUploaded, query,
                 queryResult, isQuerying, processingProgress, processingStage, uploads>>
  /\ backend' = Null

\* The catch and the finally of handleQuery (lines 159-164).
QueryFailed(j, op) ==
  /\ error' = QueryFailedMessage
  /\ isQuerying' = FALSE
  /\ queries' = [queries EXCEPT ![j].pc = "done", ![j].q = <<>>]
  /\ lastEvent' = Resumed(op, j, Null, "failed")
  /\ UNCHANGED <<pdfFile, extractedText, uploadProgress, isProcessing, isUploaded, query,
                 queryResult, processingProgress, processingStage, uploads>>
  /\ backend' = Null

\* fetch resolves: response.json() is called (line 157).
QueryFetchResolve(j) ==
  /\ queries[j].pc = "fetch"
  /\ queries' = [queries EXCEPT ![j].pc = "json"]
  /\ lastEvent' = Resumed("query.fetch.resolve", j, Null, "")
  /\ UNCHANGED <<component, uploads>>
  /\ backend' = Null

\* fetch rejects (the network failed).
QueryFetchReject(j) ==
  /\ queries[j].pc = "fetch"
  /\ QueryFailed(j, "query.fetch.reject")

\* A handler fenced by a request counter: only the latest query may store.
QueryJsonResolveFenced(j, result) ==
  /\ queries[j].pc = "json"
  /\ queryResult' = IF j = Len(queries) THEN result ELSE queryResult
  /\ isQuerying' = FALSE
  /\ queries' = [queries EXCEPT ![j].pc = "done", ![j].q = <<>>]
  /\ lastEvent' = Resumed("query.json.resolve", j, result, "stored")
  /\ UNCHANGED <<pdfFile, extractedText, uploadProgress, isProcessing, isUploaded, query,
                 error, processingProgress, processingStage, uploads>>
  /\ backend' = Null

\* response.json() resolves with the parsed result (line 158), then the finally.
QueryJsonResolve(j, result) ==
  /\ queries[j].pc = "json"
  /\ queryResult' = result
  /\ isQuerying' = FALSE
  /\ queries' = [queries EXCEPT ![j].pc = "done", ![j].q = <<>>]
  /\ lastEvent' = Resumed("query.json.resolve", j, result, "stored")
  /\ UNCHANGED <<pdfFile, extractedText, uploadProgress, isProcessing, isUploaded, query,
                 error, processingProgress, processingStage, uploads>>
  /\ backend' = Null

\* response.json() rejects (the body is no JSON).
QueryJsonReject(j) ==
  /\ queries[j].pc = "json"
  /\ QueryFailed(j, "query.json.reject")

(* ---------------------------- specification ---------------------------- *)

Next ==
  \/ \E files \in FileLists : HandleFileSelect(files)
  \/ \E i \in DOMAIN uploads : PdfToTextResolve(i)
  \/ \E i \in DOMAIN uploads : PdfToTextReject(i)
  \/ \E i \in DOMAIN uploads : \E response \in ProcessResponses : ProcessFetchResolve(i, response)
  \/ \E i \in DOMAIN uploads : ProcessFetchReject(i)
  \/ \E i \in DOMAIN uploads : \E n \in 1..Len(uploads[i].body) : ReaderRead(i, n)
  \/ \E i \in DOMAIN uploads : ReaderDone(i)
  \/ \E i \in DOMAIN uploads : ReaderReject(i)
  \/ \E i \in DOMAIN uploads : ProcessJsonSettle(i)
  \/ \E q \in QueryTexts : SetQuery(q)
  \/ ClickAsk
  \/ \E e \in KeyEvents : HandleKeyPress(e.key, e.shiftKey)
  \/ \E j \in DOMAIN queries : QueryFetchResolve(j)
  \/ \E j \in DOMAIN queries : QueryFetchReject(j)
  \/ \E j \in DOMAIN queries : \E result \in QueryResults(queries[j].q) : QueryJsonResolve(j, result)
  \/ \E j \in DOMAIN queries : QueryJsonReject(j)

Spec == Init /\ [][Next]_vars

(* ------------------------------- claims -------------------------------- *)

\* The declared type of the selected file; "" for an empty selection.
DeclaredType(files) == IF files = <<>> THEN "" ELSE files[1].type

\* The step invoked handleQuery: a click on Ask, or Enter without Shift.
InvokesHandleQuery(e) ==
  \/ e.op = "clickAsk"
  \/ e.op = "handleKeyPress" /\ e.key = "Enter" /\ ~e.shiftKey

\* The query is empty or made of whitespace only.
IsBlank(q) == \A k \in 1..Len(q) : q[k] \in Whitespace

\* The status of the page as the spec names it, read off what the page offers:
\* queries are permitted (Ready) or blocked and the upload control shown.
Status == IF TextareaEnabled THEN "Ready" ELSE "NeedsUpload"

\* Some processing cycle has completed successfully.
SomeUploadProcessed == \E i \in DOMAIN uploads : uploads[i].outcome = "processed"

\* The streamed events hold a complete event with a truthy success flag.
DeliversSuccess(events) ==
  \E k \in 1..Len(events) :
    JsonValue(events[k]).type = "complete" /\ Truthy(JsonValue(events[k]).result)

\* The step consumed a /process response as a stream up to the transport's done.
StreamExhausted(e) == e.op = "reader.done" /\ e.response # Null

\* C1: a file selection that is empty or whose declared type is not
\* application/pdf sets a non-empty error message, starts no extraction (no
\* pdfToText call, no POST /process) and changes nothing else of the session.
C1_NonPdfSelectionOnlySetsError ==
  [][ (lastEvent'.op = "handleFileSelect" /\ DeclaredType(lastEvent'.files) # PdfType)
        => /\ error' # ""
           /\ UNCHANGED <<pdfFile, extractedText, uploadProgress, isProcessing,
                          isUploaded, query, queryResult, isQuerying,
                          processingProgress, processingStage, uploads, queries>> ]_vars

\* C1 witness: a text file was selected while an extraction was in flight.
C1_Witness ==
  /\ lastEvent.op = "handleFileSelect"
  /\ DeclaredType(lastEvent.files) = "text/plain"
  /\ error = InvalidFileMessage
  /\ isProcessing
  /\ \E i \in DOMAIN uploads : uploads[i].pc = "pdfToText"

\* C2 (as claimed): when a stream that delivers a complete event with a truthy
\* success flag is exhausted, processingProgress is 100, the stage is the
\* terminal label, queries are permitted and the error message is empty.
C2_SuccessStreamEndsReady ==
  (StreamExhausted(lastEvent) /\ DeliversSuccess(lastEvent.response.events))
    => /\ processingProgress = 100
       /\ processingStage = CompleteStage
       /\ Status = "Ready"
       /\ error = ""

\* C3 (as claimed): when a stream that holds an error event with message m is
\* exhausted, the status is NeedsUpload, the error message is m and
\* processingProgress is 0.
C3_ErrorEventSurfaced ==
  StreamExhausted(lastEvent) =>
    \A k \in 1..Len(lastEvent.response.events) :
      JsonValue(lastEvent.response.events[k]).type = "error"
        => /\ Status = "NeedsUpload"
           /\ error = JsonValue(lastEvent.response.events[k]).error
           /\ processingProgress = 0

\* C4 (as claimed): after a failed processing cycle the user can select a file
\* again.
C4_RetryAfterFailedProcessing ==
  lastEvent.outcome = "processFailed" => UploadControlRendered

\* C5 (as claimed): a POST /query is outstanding only when some processing
\* cycle has completed successfully.
C5_QueryOnlyWhenProcessed ==
  (\E j \in DOMAIN queries : queries[j].pc = "fetch") => SomeUploadProcessed

C7_BlankQueryIsNoOp ==
  [][ (InvokesHandleQuery(lastEvent') /\ IsBlank(query))
        => UNCHANGED <<queryResult, error, isQuerying, queries, uploads>> ]_vars

\* C7 witness: Enter was pressed on a whitespace-only query while an earlier
\* result and an error message were on display.
C7_Witness ==
  /\ InvokesHandleQuery(lastEvent)
  /\ query = <<" ">>
  /\ queryResult # Null
  /\ error # ""

\* C8 (as claimed): when a response with success == false has been parsed, the
\* result is stored and the error message is the result's response field.
C8_UnsuccessfulResultSetsError ==
  (lastEvent.op = "query.json.resolve" /\ queryResult # Null /\ ~queryResult.success)
    => error = queryResult.response

\* C9 (as claimed): when handleQuery has been invoked with a non-blank query,
\* the error and the prior queryResult are cleared and isQuerying is true.
C9_QueryClearsPriorResult ==
  (InvokesHandleQuery(lastEvent) /\ ~IsBlank(query))
    => error = "" /\ queryResult = Null /\ isQuerying

\* C10 (as claimed): when the fetch of a query has failed, an error message is
\* set and queryResult is empty.
C10_FailedQueryLeavesNoResult ==
  lastEvent.op = "query.fetch.reject" => error # "" /\ queryResult = Null

\* The step ended an invocation of handleQuery, with a stored result or a failure.
QuerySettled(e) == e.outcome \in {"stored", "failed"}

\* C11: whenever the fetch of a query settles for good (a parsed response,
\* an unparsable body or a network failure), the handler leaves isQuerying
\* false.
C11_SettledQueryClearsQuerying ==
  QuerySettled(lastEvent) => ~isQuerying

\* C11 witness: a query's body could not be parsed and the flag is cleared.
C11_Witness ==
  lastEvent.op = "query.json.reject" /\ ~isQuerying /\ error = QueryFailedMessage

\* C12: a key press of Enter without Shift is a step of handleQuery itself
\* (same assignments, same request issued, the text of the query untouched);
\* a key press of Shift+Enter or of any other key changes no state of the
\* component and issues no request.
C12_EnterIsHandleQuery ==
  [][ lastEvent'.op = "handleKeyPress" =>
        IF lastEvent'.key = "Enter" /\ ~lastEvent'.shiftKey
        THEN HandleQuery /\ UNCHANGED uploads
        ELSE UNCHANGED <<component, queries, uploads>> ]_vars

\* C12 witness: Enter without Shift has just issued a query.
C12_Witness ==
  /\ lastEvent.op = "handleKeyPress"
  /\ lastEvent.key = "Enter" /\ ~lastEvent.shiftKey
  /\ isQuerying
  /\ Len(queries) > 0 /\ queries[Len(queries)].pc = "fetch"

\* The step was handleFileSelect on a selection whose first file is a PDF.
AcceptedSelection(e) ==
  /\ e.op = "handleFileSelect"
  /\ DeclaredType(e.files) = PdfType

C14_ExtractionFailureResetsProgress ==
  lastEvent.op = "pdfToText.reject" =>
    /\ error # ""
    /\ ~isProcessing
    /\ uploads[lastEvent.id].pc = "done"
    /\ uploads[lastEvent.id].response = Null
    /\ uploadProgress = 0
    /\ processingProgress = 0

\* The position of upload i before a step, "none" when the step creates it.
PcBefore(i) == IF i <= Len(uploads) THEN uploads[i].pc ELSE "none"

\* C15: a POST /process goes out only at the step where pdfToText resolves
\* for an accepted file, in that same step (no user event in between), for
\* that upload alone, with the text pdfToText returned and strategy "ai";
\* an upload whose request has gone out never extracts or posts again.
C15_ProcessPostedOncePerExtraction ==
  [][ /\ \A i \in 1..Len(uploads') :
           /\ (uploads'[i].pc = "fetch" /\ PcBefore(i) # "fetch") =>
                 /\ PcBefore(i) = "pdfToText"
                 /\ lastEvent'.op = "pdfToText.resolve"
                 /\ lastEvent'.id = i
                 /\ uploads'[i].request =
                      [constitutionText |-> PdfToText(uploads[i].file), strategy |-> "ai"]
           /\ (uploads'[i].pc = "pdfToText" /\ PcBefore(i) # "pdfToText") =>
                 /\ PcBefore(i) = "none"
                 /\ lastEvent'.op = "handleFileSelect"
      /\ lastEvent'.op = "pdfToText.resolve" =>
           /\ uploads[lastEvent'.id].pc = "pdfToText"
           /\ uploads'[lastEvent'.id].pc = "fetch" ]_vars

\* C15 witness: extraction of a.pdf has resolved and its request is
\* outstanding, with no user event since.
C15_Witness ==
  /\ lastEvent.op = "pdfToText.resolve"
  /\ uploads[lastEvent.id].pc = "fetch"
  /\ uploads[lastEvent.id].request = [constitutionText |-> "text of a", strategy |-> "ai"]

\* The content types that announce a stream of events.
AdvertisesStreaming(contentType) == contentType \in {"text/stream", "text/event-stream"}

\* C16: a /process response whose content type announces no stream is read
\* as one JSON body; on that path a body with truthy success ends with
\* processingProgress 100 and the stage "Complete!", and a body with falsy
\* success, or one that does not parse, ends with the processing error
\* message and processingProgress 0.
C16_NonStreamingFallback ==
  [][ \A i \in 1..Len(uploads) :
        /\ ( /\ lastEvent'.op = "process.fetch.resolve"
             /\ lastEvent'.id = i
             /\ ~AdvertisesStreaming(uploads'[i].response.contentType) ) =>
               uploads'[i].pc = "json"
        /\ (uploads[i].pc = "json" /\ uploads'[i].pc # "json") =>
               LET parsed == ParseJSON(uploads[i].body) IN
               IF parsed.ok /\ parsed.value.success
               THEN /\ processingProgress' = 100
                    /\ processingStage' = CompleteStage
                    /\ error' = error
                    /\ uploads'[i].outcome = "processed"
               ELSE /\ error' = ProcessFailedMessage
                    /\ processingProgress' = 0
                    /\ processingStage' = ""
                    /\ uploads'[i].outcome = "processFailed" ]_vars

\* C16 witness: an application/json body with success true has completed
\* the processing.
C16_Witness ==
  /\ lastEvent.op = "process.json"
  /\ lastEvent.response.contentType = "application/json"
  /\ lastEvent.outcome = "processed"
  /\ processingProgress = 100
  /\ processingStage = CompleteStage

\* The steps at which an awaited operation failed.
Rejections ==
  {"pdfToText.reject", "process.fetch.reject", "reader.reject",
   "query.fetch.reject", "query.json.reject"}

\* The step is a failure at an asynchronous boundary: a rejection, or a
\* stream that ended without a successful complete event.
AsyncFailure(e) ==
  \/ e.op \in Rejections
  \/ StreamExhausted(e) /\ ~DeliversSuccess(e.response.events)

\* The handler the step belongs to has run to its end.
HandlerFinished(e) ==
  IF e.op \in {"query.fetch.reject", "query.json.reject"}
  THEN queries[e.id].pc = "done"
  ELSE uploads[e.id].pc = "done"

\* C17: at every failure of an awaited operation (extraction, POST /process
\* or its stream, POST /query or its body) the handler takes its failure
\* branch, runs to its end, and leaves a non-empty error message.
C17_AsyncFailuresLeaveError ==
  AsyncFailure(lastEvent) =>
    /\ lastEvent.outcome \in {"extractFailed", "processFailed", "failed"}
    /\ HandlerFinished(lastEvent)
    /\ error # ""

\* C17 witness: the stream of /process broke in the middle of a read.
C17_Witness ==
  lastEvent.op = "reader.reject" /\ error = ProcessFailedMessage

\* C18: in every reachable state uploadProgress and processingProgress are
\* numbers within 0..100, whatever the user does and whatever progress events
\* the backend streams.
C18_ProgressWithinPercent ==
  /\ uploadProgress \in 0..100
  /\ processingProgress \in 0..100

\* The steps that resume an invocation of handleQuery.
QueryResumptions ==
  {"query.fetch.resolve", "query.fetch.reject", "query.json.resolve", "query.json.reject"}

\* C19: with queries outstanding together, a query is moved on by its own
\* responses only (issuing another one cancels nothing), and each parsed
\* response is stored as queryResult when it arrives, whether or not a later
\* query has been issued or has already been answered: the last arrival is
\* the result that stays.
C19_QueriesLastArrivalWins ==
  [][ /\ \A j \in 1..Len(queries) :
           queries'[j] # queries[j] =>
             lastEvent'.op \in QueryResumptions /\ lastEvent'.id = j
      /\ lastEvent'.op = "query.json.resolve" => queryResult' = lastEvent'.response
      /\ lastEvent'.op # "query.json.resolve" => queryResult' = queryResult ]_vars

\* C19 witness: the query issued first is answered after the one issued
\* second, and its answer is the stored result.
C19_Witness ==
  /\ lastEvent.op = "query.json.resolve"
  /\ lastEvent.id = 1
  /\ Len(queries) = 2
  /\ queries[2].pc = "done"
  /\ queryResult = lastEvent.response

\* The steps that resume an upload: its extraction, its request, its stream.
UploadResumptions ==
  {"pdfToText.resolve", "pdfToText.reject", "process.fetch.resolve", "process.fetch.reject",
   "reader.read", "reader.done", "reader.reject", "process.json"}

\* C20: selecting another PDF while an extraction is pending aborts nothing:
\* an upload is moved on by its own continuations only; every extraction that
\* resolves, the latest or not, issues its POST /process and writes
\* extractedText and the progress state, so these are the values of the step
\* that resumed last; nothing else writes extractedText.
C20_ExtractionsRaceLastWriteWins ==
  [][ /\ \A i \in 1..Len(uploads) :
           uploads'[i] # uploads[i] =>
             lastEvent'.op \in UploadResumptions /\ lastEvent'.id = i
      /\ lastEvent'.op = "pdfToText.resolve" =>
           /\ extractedText' = PdfToText(uploads[lastEvent'.id].file)
           /\ uploadProgress' = 100
           /\ processingProgress' = 0
           /\ processingStage' = InitialStage
           /\ uploads'[lastEvent'.id].pc = "fetch"
      /\ lastEvent'.op # "pdfToText.resolve" => extractedText' = extractedText ]_vars

\* C20 witness: b.pdf was selected while a.pdf was being extracted, b.pdf's
\* extraction resolved first and its request went out, and a.pdf's extraction
\* has resolved after it: the text on hand is a.pdf's under b.pdf's name.
C20_Witness ==
  /\ lastEvent.op = "pdfToText.resolve"
  /\ lastEvent.id = 1
  /\ Len(uploads) = 2
  /\ uploads[1].pc = "fetch"
  /\ uploads[2].pc \in {"fetch", "read", "json"}
  /\ pdfFile # Null /\ pdfFile.name = "b.pdf"
  /\ extractedText = "text of a"

\* A POST /query is outstanding: its fetch or its body has not settled.
QueryOutstanding == \E j \in DOMAIN queries : queries[j].pc \in {"fetch", "json"}

\* C21: in every reachable state, isQuerying is true whenever at least one
\* POST /query is outstanding.
C21_QueryingWhileOutstanding ==
  QueryOutstanding => isQuerying

\* An upload is in flight: its extraction, its POST /process or the reading
\* of the response has not ended.
UploadInFlight ==
  \E i \in DOMAIN uploads : uploads[i].pc \in {"pdfToText", "fetch", "read", "json"}

\* C22: in every reachable state, isProcessing is true whenever a text
\* extraction or a POST /process started by a file selection is in flight.
C22_ProcessingWhileInFlight ==
  UploadInFlight => isProcessing

\* What the stream loop holds after the whole stream arrived as one chunk.
SingleChunk(events) ==
  ApplyChunk(Serialize(events),
             [progress |-> 0, stage |-> InitialStage, finalResult |-> Null])

\* C23: however the transport cut the stream into chunks, when the stream is
\* exhausted the outcome, processingProgress and processingStage are those the
\* same stream gives when it arrives as a single chunk.
C23_ChunkingDoesNotMatter ==
  StreamExhausted(lastEvent) =>
    LET ok == Truthy(SingleChunk(lastEvent.response.events).finalResult) IN
      /\ lastEvent.outcome = (IF ok THEN "processed" ELSE "processFailed")
      /\ processingProgress = (IF ok THEN 100 ELSE 0)
      /\ processingStage = (IF ok THEN CompleteStage ELSE "")

\* C24: no step sets isUploaded back to false, and pdfFile changes only when
\* the upload handler accepts a PDF, which replaces it by the selected file;
\* it is never cleared.
C24_UploadedAndFileAreKept ==
  [][ /\ isUploaded => isUploaded'
      /\ pdfFile' # pdfFile =>
           /\ AcceptedSelection(lastEvent')
           /\ pdfFile' = lastEvent'.files[1]
           /\ pdfFile' # Null ]_vars

\* C24 witness: with one extraction done and the page uploaded, the
\* extraction of the other selected file fails; the flag and the file stay.
C24_Witness ==
  /\ lastEvent.op = "pdfToText.reject"
  /\ isUploaded
  /\ pdfFile # Null

====
